---- MODULE Spec2Model ----
(***************************************************************************)
(* Payment reconciliation engine of the booking application:               *)
(*   submit-payment route (POST), verifyPayment / checkTransactionUsed /   *)
(*   updateBookingStatus (lib/verification.ts), and the admin approve and  *)
(*   reject routes, and the loading of lib/config.ts (SpecConfig).         *)
(*   Every handler is an async function; handlers                          *)
(*   interleave at their awaited store and chain calls.  Consecutive awaits*)
(*   are taken as one step where only the last of them writes the store.   *)
(***************************************************************************)
EXTENDS Integers, Sequences, FiniteSets, Bags, TLC

(***************************************************************************)
(* Bounds of the model                                                     *)
(***************************************************************************)
\* number of submitPayment requests issued in one behaviour
MaxSubmits == 2
\* retry budget handed to verifyPayment (the route passes 10)
MaxRetries == 2
\* number of admin requests (approve, reject) handled at the same time
MaxAdmin == 2

(***************************************************************************)
(* Program constants                                                       *)
(***************************************************************************)
\* approve: "Force $30 if not set"
ReservationFee == 30
\* approve: numberOfNights > 2 forces reservation mode
NightsThreshold == 2
\* chainConfig[10143].tokens.*.decimals
TokenDecimals == 6

\* null column of the store
Null == "null"
\* null of a Float column (amounts are Float? in the store)
NullAmount == -1000

BookingIds == {"b1", "b2"}
Hashes == {"0xaa", "0xbb"}
\* a txHash string that fails /^0x[a-fA-F0-9]{64}$/
MalformedHash == "0xzz"
\* a bookingId no row carries
UnknownBooking == "b0"
Tokens == {"USDC", "USDT"}

\* addresses as spelled in config.ts (mixed case) and as they may be spelled in a log
treasuryAddress == "0x8895aBa"
UsdcAddress == "0xf817cDe"
UsdtAddress == "0x88b8E21"
OtherAddress == "0x1111abc"
TRANSFER_TOPIC == "0xddf252ad"
APPROVAL_TOPIC == "0x8c5be1e5"

\* String.prototype.toLowerCase on the address spellings of the model
toLowerCase(a) ==
  CASE a = "0x8895aBa" -> "0x8895aba"
    [] a = "0xf817cDe" -> "0xf817cde"
    [] a = "0x88b8E21" -> "0x88b8e21"
    [] a = "0xF817CDE" -> "0xf817cde"
    [] a = "0x8895ABA" -> "0x8895aba"
    [] OTHER -> a

\* chainConfig[10143].tokens[symbol]
tokenInfo(symbol) ==
  CASE symbol = "USDC" -> [address |-> UsdcAddress, decimals |-> TokenDecimals]
    [] symbol = "USDT" -> [address |-> UsdtAddress, decimals |-> TokenDecimals]
    [] OTHER -> [address |-> Null, decimals |-> 0]

\* chain.tokens[paymentToken] is defined
tokenConfigured(symbol) == symbol \in Tokens

RECURSIVE Pow10(_)
Pow10(n) == IF n = 0 THEN 1 ELSE 10 * Pow10(n - 1)

\* viem parseUnits(expectedAmount.toString(), decimals) for whole-number amounts
parseUnits(amount, decimals) == amount * Pow10(decimals)

(***************************************************************************)
(* lib/config.ts                                                           *)
(***************************************************************************)
MonadTestnet == 10143

\* /^0x[a-fA-F0-9]{40}$/i on the address spellings of the model
isAddress(a) == a \in {"0x8895aBa", "0xf817cDe", "0x88b8E21", "0x1111abc",
                       "0x8895aba", "0xf817cde", "0x88b8e21", "0xF817CDE", "0x8895ABA"}

\* rpcUrl.startsWith('http')
startsWithHttp(url) == url \in {"https://rpc", "http://rpc"}

\* the configuration as written in the file, with the default RPC URL
StaticConfig ==
  [treasuryAddress |-> treasuryAddress,
   chainConfig |-> (MonadTestnet :> [rpcUrl |-> "https://rpc",
                                      tokens |-> ("USDC" :> UsdcAddress @@ "USDT" :> UsdtAddress)])]

\* configurations an edit of the file or of NEXT_PUBLIC_MONAD_RPC_URL can produce
Configs ==
  {[treasuryAddress |-> t, chainConfig |-> c] :
     t \in {treasuryAddress, "0x8895", "8895aBa"},
     c \in UNION {[ids -> [rpcUrl : {"https://rpc", "http://rpc", "ws://rpc"},
                           tokens : UNION {[syms -> {UsdcAddress, "0xf817"}] :
                                             syms \in SUBSET Tokens}]] :
                    ids \in SUBSET {MonadTestnet}}}

\* the errors validateConfiguration collects
validateConfiguration(c) ==
  LET SUPPORTED_CHAINS == DOMAIN c.chainConfig IN
  (IF ~isAddress(c.treasuryAddress) THEN {"Invalid treasury address format"} ELSE {})
  \cup (IF SUPPORTED_CHAINS = {} THEN {"No chains configured"} ELSE {})
  \cup UNION {
       (IF ~startsWithHttp(c.chainConfig[id].rpcUrl) THEN {"Invalid RPC URL"} ELSE {})
       \cup (IF DOMAIN c.chainConfig[id].tokens = {} THEN {"No tokens configured"} ELSE {})
       \cup {"Invalid token address" : sym \in {x \in DOMAIN c.chainConfig[id].tokens :
                                                  ~isAddress(c.chainConfig[id].tokens[x])}}
       : id \in SUPPORTED_CHAINS}

(***************************************************************************)
(* Chain: receipts a node can return for a transaction hash                *)
(***************************************************************************)
Log(addr, topic, to, data) == [address |-> addr, topic0 |-> topic, to |-> to, data |-> data]

\* getTransactionReceipt answered "not found" (not mined / not indexed yet)
NoReceipt == [status |-> "absent", logs |-> <<>>]
\* 30 USDC to the treasury, token address spelled in upper case by the node
ReceiptPays30 == [status |-> "success",
                  logs |-> <<Log("0xF817CDE", TRANSFER_TOPIC, "0x8895aba", 30000000)>>]
\* 30 USDC minus one base unit
ReceiptOffByOne == [status |-> "success",
                    logs |-> <<Log(UsdcAddress, TRANSFER_TOPIC, treasuryAddress, 29999999)>>]
\* reverted transaction whose logs nevertheless show the exact transfer
ReceiptReverted == [status |-> "reverted",
                    logs |-> <<Log(UsdcAddress, TRANSFER_TOPIC, treasuryAddress, 30000000)>>]
\* a transfer to somebody else followed by an approval event
ReceiptWrongRecipient == [status |-> "success",
                          logs |-> <<Log(UsdcAddress, TRANSFER_TOPIC, OtherAddress, 30000000),
                                     Log(UsdcAddress, APPROVAL_TOPIC, treasuryAddress, 30000000)>>]
\* only a USDT transfer: no Transfer event of USDC
ReceiptOtherToken == [status |-> "success",
                      logs |-> <<Log(UsdtAddress, TRANSFER_TOPIC, treasuryAddress, 30000000)>>]
\* first treasury transfer is short, a later one is exact
ReceiptShortThenExact == [status |-> "success",
                          logs |-> <<Log(UsdcAddress, TRANSFER_TOPIC, OtherAddress, 30000000),
                                     Log(UsdcAddress, TRANSFER_TOPIC, treasuryAddress, 1),
                                     Log(UsdcAddress, TRANSFER_TOPIC, treasuryAddress, 30000000)>>]

\* receipt.blockNumber, tx.from and receipt.gasUsed of the transaction behind a hash
\* a second spelling of transaction 0xaa: both pass /^0x[a-fA-F0-9]{64}$/, and the node,
\* which decodes the hex digits, answers for both with the same transaction
UpperCaseHash == "0xAA"
Spellings == Hashes \cup {UpperCaseHash}
txOf(h) == IF h = UpperCaseHash THEN "0xaa" ELSE h

blockNumberOf(h) == IF txOf(h) = "0xaa" THEN 101 ELSE 102
senderOf(h) == IF txOf(h) = "0xaa" THEN "0xpayerA" ELSE "0xpayerB"
gasUsedOf(h) == IF txOf(h) = "0xaa" THEN 51000 ELSE 52000

\* what the transaction behind each hash of the model can turn out to be once mined
ReceiptsOf(h) == IF h = "0xaa" THEN {ReceiptPays30}
                 ELSE {ReceiptPays30, ReceiptOffByOne, ReceiptShortThenExact,
                       ReceiptReverted, ReceiptWrongRecipient, ReceiptOtherToken}

(***************************************************************************)
(* verifyPayment, steps 6-9: classification of a present receipt           *)
(***************************************************************************)
\* variant: the emitting address is compared as spelled
transferLogs_caseSensitive(receipt, tokenAddress) ==
  SelectSeq(receipt.logs,
            LAMBDA log : log.address = tokenAddress /\ log.topic0 = TRANSFER_TOPIC)

\* receipt.logs.filter(addressMatch && topicMatch)
transferLogs(receipt, tokenAddress) ==
  SelectSeq(receipt.logs,
            LAMBDA log : /\ toLowerCase(log.address) = toLowerCase(tokenAddress)
                         /\ log.topic0 = TRANSFER_TOPIC)

\* indexes of the filtered logs whose recipient is the treasury
TreasuryIdx(tl) == {i \in 1..Len(tl) : toLowerCase(tl[i].to) = toLowerCase(treasuryAddress)}

Min(S) == CHOOSE x \in S : \A y \in S : x <= y

\* variant: any log sent to the treasury with the expected value is taken
matchTransfer_anyLog(tl, expectedBaseUnits) ==
  IF TreasuryIdx(tl) = {} THEN "wrong_recipient"
  ELSE IF \A i \in TreasuryIdx(tl) : tl[i].data # expectedBaseUnits THEN "amount_mismatch"
  ELSE "ok"

\* the for loop of step 9: it returns at the first log sent to the treasury
matchTransfer(tl, expectedBaseUnits) ==
  IF TreasuryIdx(tl) = {} THEN "wrong_recipient"
  ELSE IF tl[Min(TreasuryIdx(tl))].data # expectedBaseUnits THEN "amount_mismatch"
  ELSE "ok"

\* variant: the receipt status is not looked at
classifyReceipt_ignoresStatus(receipt, paymentToken, expectedAmount) ==
  IF ~tokenConfigured(paymentToken) THEN "throw_token_not_configured"
  ELSE LET info == tokenInfo(paymentToken)
           tl == transferLogs(receipt, info.address)
       IN IF Len(tl) = 0 THEN "no_transfer"
          ELSE matchTransfer(tl, parseUnits(expectedAmount, info.decimals))

\* outcome of one attempt once a receipt is present
classifyReceipt(receipt, paymentToken, expectedAmount) ==
  IF receipt.status # "success" THEN "tx_failed"
  ELSE IF ~tokenConfigured(paymentToken) THEN "throw_token_not_configured"
  ELSE LET info == tokenInfo(paymentToken)
           tl == transferLogs(receipt, info.address)
       IN IF Len(tl) = 0 THEN "no_transfer"
          ELSE matchTransfer(tl, parseUnits(expectedAmount, info.decimals))

(***************************************************************************)
(* State                                                                   *)
(***************************************************************************)
VARIABLES
  bookings,       \* the Booking table: bookingId -> row
  activityLog,    \* the ActivityLog table: a bag of [bookingId, action, detail] rows
  notifications,  \* e-mails handed to the mailer: a bag of [bookingId, type]
  chain,          \* what the node answers for each transaction hash
  issued,         \* number of submitPayment requests received so far
  reqs,           \* submitPayment requests being handled: a bag of their locals
  vers,           \* verifyPayment runs in flight: a bag of their locals
  admin,          \* approve / reject requests between their read and their update
  config,         \* lib/config.ts: treasuryAddress and chainConfig as evaluated
  loaded          \* lib/config.ts has finished loading

vars == <<bookings, activityLog, notifications, chain, issued, reqs, vers, admin,
          config, loaded>>

Statuses == {"WAITLISTED", "PENDING", "RESERVED", "CONFIRMED", "FAILED", "CANCELLED", "EXPIRED"}

BagAdd(B, e) == B (+) SetToBag({e})
BagRemove(B, e) == B (-) SetToBag({e})

\* a row as the application form creates it: nothing paid, no hash recorded
NewBooking(nights, price, payAmount, payToken) ==
  [status |-> "WAITLISTED",
   numberOfNights |-> nights,
   priceUSDC |-> price,
   selectedRoomPriceUSDC |-> NullAmount,
   requiresReservation |-> FALSE,
   paymentAmount |-> payAmount,
   paymentToken |-> payToken,
   reservationAmount |-> NullAmount,
   remainingAmount |-> NullAmount,
   reservationToken |-> Null,
   remainingToken |-> Null,
   reservationPaid |-> FALSE,
   remainingPaid |-> FALSE,
   txHash |-> Null,
   reservationTxHash |-> Null,
   remainingTxHash |-> Null,
   chainId |-> 0,
   blockNumber |-> 0,
   senderAddress |-> Null,
   gasUsed |-> 0]

\* rows booking "b1" can hold when the server starts
InitialBookings ==
  { NewBooking(2, 30, 30, "USDC"),          \* short stay, payment locked
    NewBooking(2, 30, NullAmount, Null),    \* short stay, payment never locked
    NewBooking(3, 60, 30, "USDC"),          \* long stay, client locked the 30 fee
    NewBooking(3, 60, NullAmount, Null),    \* long stay, nothing locked
    [NewBooking(3, 60, 30, "USDT") EXCEPT !.reservationToken = "USDT",
                                          !.selectedRoomPriceUSDC = 20] }
                                            \* long stay in a room of 20, fee locked in USDT

\* booking "b2": a short stay that was approved earlier and whose payment is locked
ApprovedShortStay == [NewBooking(2, 30, 30, "USDC") EXCEPT !.status = "PENDING"]

\* db.activityLog.create: rows are only ever added
\* detail: details.error of a payment_failed row, Null for the other rows
LogRow(b, action, detail) == [bookingId |-> b, action |-> action, detail |-> detail]
AppendLog(log, b, action, detail) == BagAdd(log, LogRow(b, action, detail))

Init ==
  /\ \E row \in InitialBookings :
        bookings = [b \in BookingIds |-> IF b = "b1" THEN row ELSE ApprovedShortStay]
  /\ activityLog = SetToBag({LogRow("b2", "waitlist_approved", Null)})
  /\ notifications = EmptyBag
  /\ chain = [h \in Hashes |-> NoReceipt]
  /\ issued = 0
  /\ reqs = EmptyBag
  /\ vers = EmptyBag
  /\ admin = EmptyBag
  /\ config = StaticConfig
  /\ loaded = TRUE

(***************************************************************************)
(* Chain: a submitted transaction gets mined; its receipt never changes    *)
(***************************************************************************)
Mine(h) ==
  /\ chain[h] = NoReceipt
  /\ \E r \in ReceiptsOf(h) : chain' = [chain EXCEPT ![h] = r]
  /\ UNCHANGED <<bookings, activityLog, notifications, issued, reqs, vers, admin, config, loaded>>

(***************************************************************************)
(* Admin approve route (POST)                                              *)
(***************************************************************************)
\* a || b on nullable numbers: null and 0 are falsy
OrElseAmount(a, b) == IF a # NullAmount /\ a # 0 THEN a ELSE b

\* locals of an admin request between its findUnique and its update
AdminRequest(op, b, requiresReservation, reservationAmount, remainingAmount) ==
  [op |-> op, bookingId |-> b, requiresReservation |-> requiresReservation,
   reservationAmount |-> reservationAmount, remainingAmount |-> remainingAmount]

\* variant: a stay of two nights is put into reservation mode as well
approveLocals_fromTwoNights(b, bk) ==
  LET totalPrice == OrElseAmount(bk.selectedRoomPriceUSDC, bk.priceUSDC)
      calculatedTotal == OrElseAmount(totalPrice, bk.priceUSDC * bk.numberOfNights)
  IN IF bk.numberOfNights >= NightsThreshold
     THEN AdminRequest("approve", b, TRUE, ReservationFee, calculatedTotal - ReservationFee)
     ELSE AdminRequest("approve", b, FALSE, bk.reservationAmount, bk.remainingAmount)

\* "Force Re-calculation of Payment Logic" on the row just read
approveLocals(b, bk) ==
  LET totalPrice == OrElseAmount(bk.selectedRoomPriceUSDC, bk.priceUSDC)
      calculatedTotal == OrElseAmount(totalPrice, bk.priceUSDC * bk.numberOfNights)
  IN IF bk.numberOfNights > NightsThreshold
     THEN AdminRequest("approve", b, TRUE, ReservationFee, calculatedTotal - ReservationFee)
     ELSE AdminRequest("approve", b, FALSE, bk.reservationAmount, bk.remainingAmount)

\* variant: the approve update also marks the reservation as unpaid
approveData_resetsReservation(bk, a) ==
  [bk EXCEPT !.status = "PENDING",
             !.requiresReservation = a.requiresReservation,
             !.reservationAmount = a.reservationAmount,
             !.remainingAmount = a.remainingAmount,
             !.reservationPaid = FALSE]

\* data of the update of step 5 (where: { bookingId })
approveData(bk, a) ==
  [bk EXCEPT !.status = "PENDING",
             !.requiresReservation = a.requiresReservation,
             !.reservationAmount = a.reservationAmount,
             !.remainingAmount = a.remainingAmount]

\* steps 1-4: findUnique, the WAITLISTED check (anything else answers 409 and changes
\* nothing) and the recalculation
ApproveFind(b) ==
  /\ BagCardinality(admin) < MaxAdmin
  /\ bookings[b].status = "WAITLISTED"
  /\ admin' = BagAdd(admin, approveLocals(b, bookings[b]))
  /\ UNCHANGED <<bookings, activityLog, notifications, chain, issued, reqs, vers, config, loaded>>

\* steps 5-6: the update and the waitlist_approved log row
ApproveUpdate(a) ==
  /\ a.op = "approve"
  /\ bookings' = [bookings EXCEPT ![a.bookingId] = approveData(@, a)]
  /\ activityLog' = AppendLog(activityLog, a.bookingId, "waitlist_approved", Null)
  /\ admin' = BagRemove(admin, a)
  /\ UNCHANGED <<notifications, chain, issued, reqs, vers, config, loaded>>

(***************************************************************************)
(* Admin reject route (POST)                                               *)
(***************************************************************************)
rejectData(bk) == [bk EXCEPT !.status = "CANCELLED"]

\* steps 1-2: findUnique and the WAITLISTED check
RejectFind(b) ==
  /\ BagCardinality(admin) < MaxAdmin
  /\ bookings[b].status = "WAITLISTED"
  /\ admin' = BagAdd(admin, AdminRequest("reject", b, FALSE, NullAmount, NullAmount))
  /\ UNCHANGED <<bookings, activityLog, notifications, chain, issued, reqs, vers, config, loaded>>

\* steps 3-4: the update and the waitlist_rejected log row
RejectUpdate(a) ==
  /\ a.op = "reject"
  /\ bookings' = [bookings EXCEPT ![a.bookingId] = rejectData(@)]
  /\ activityLog' = AppendLog(activityLog, a.bookingId, "waitlist_rejected", Null)
  /\ admin' = BagRemove(admin, a)
  /\ UNCHANGED <<notifications, chain, issued, reqs, vers, config, loaded>>

(***************************************************************************)
(* Idempotency guard                                                       *)
(***************************************************************************)
\* variant: any recorded hash counts as used, whatever the status and the flags
checkTransactionUsed_recorded(table, h) ==
  \E b \in DOMAIN table :
     h \in {table[b].txHash, table[b].reservationTxHash, table[b].remainingTxHash}

\* db.booking.findFirst({ where: { OR: [...] } }) !== null
checkTransactionUsed(table, h) ==
  \E b \in DOMAIN table :
     \/ table[b].txHash = h /\ table[b].status = "CONFIRMED"
     \/ table[b].reservationTxHash = h /\ table[b].reservationPaid
     \/ table[b].remainingTxHash = h /\ table[b].remainingPaid

(***************************************************************************)
(* submit-payment route (POST)                                             *)
(***************************************************************************)
Refuse(code, error) == [code |-> code, error |-> error]
Pass == [code |-> 0, error |-> Null]

\* step "Determine payment type and validate status" on the row just read
statusGuard(bk, paymentToken, isRemainingPayment) ==
  IF bk.requiresReservation
  THEN IF isRemainingPayment
       THEN IF ~bk.reservationPaid THEN Refuse(400, "reservation_not_paid")
            ELSE IF bk.status # "RESERVED" THEN Refuse(409, "status_conflict")
            ELSE IF bk.remainingPaid THEN Refuse(409, "already_paid")
            ELSE IF bk.remainingToken # Null /\ bk.remainingToken # paymentToken
                 THEN Refuse(400, "token_mismatch")
            ELSE Pass
       ELSE IF bk.status # "PENDING" THEN Refuse(409, "status_conflict")
            ELSE IF bk.reservationPaid THEN Refuse(409, "already_paid")
            ELSE IF bk.reservationToken # Null /\ bk.reservationToken # paymentToken
                 THEN Refuse(400, "token_mismatch")
            ELSE Pass
  ELSE IF bk.status # "PENDING" THEN Refuse(409, "status_conflict")
       ELSE IF bk.paymentToken = Null \/ bk.paymentAmount = NullAmount \/ bk.paymentAmount = 0
            THEN Refuse(400, "payment_not_locked")
       ELSE Pass

\* locals of a POST between two awaits
Request(pc, b, h, tok, rem, resv) ==
  [pc |-> pc, bookingId |-> b, txHash |-> h, paymentToken |-> tok,
   isRemainingPayment |-> rem, requiresReservation |-> resv, code |-> 0, error |-> Null]

\* a refused request: the response is on its way to the client; of the request only
\* the hash it carried is still of interest
Responded(q, resp) ==
  [Request("responded", Null, q.txHash, Null, FALSE, FALSE) EXCEPT !.code = resp.code,
                                                                    !.error = resp.error]

\* variant: the booking is looked up before the replay check
SubmitReceive_lookupFirst(b, h, tok, rem) ==
  /\ issued < MaxSubmits
  /\ issued' = issued + 1
  /\ LET q == Request("find", b, h, tok, rem, FALSE) IN
     reqs' = BagAdd(reqs,
        IF tok = Null THEN Responded(q, Refuse(400, "missing_fields"))
        ELSE IF h = MalformedHash THEN Responded(q, Refuse(400, "invalid_hash"))
        ELSE IF b \notin DOMAIN bookings THEN Responded(q, Refuse(404, "not_found"))
        ELSE IF checkTransactionUsed(bookings, h)
             THEN Responded(q, Refuse(409, "TRANSACTION_ALREADY_USED"))
        ELSE q)
  /\ UNCHANGED <<bookings, activityLog, notifications, chain, vers, admin, config, loaded>>

\* steps 1-3: body validation, hash format, then the awaited checkTransactionUsed
SubmitReceive(b, h, tok, rem) ==
  /\ issued < MaxSubmits
  /\ issued' = issued + 1
  /\ LET q == Request("find", b, h, tok, rem, FALSE) IN
     reqs' = BagAdd(reqs,
        IF tok = Null THEN Responded(q, Refuse(400, "missing_fields"))
        ELSE IF h = MalformedHash THEN Responded(q, Refuse(400, "invalid_hash"))
        ELSE IF checkTransactionUsed(bookings, h)
             THEN Responded(q, Refuse(409, "TRANSACTION_ALREADY_USED"))
        ELSE q)
  /\ UNCHANGED <<bookings, activityLog, notifications, chain, vers, admin, config, loaded>>

\* variant: the submission is logged before the guards are evaluated
SubmitFind_logFirst(q) ==
  /\ q.pc = "find"
  /\ reqs' = BagAdd(BagRemove(reqs, q),
        IF q.bookingId \notin DOMAIN bookings THEN Responded(q, Refuse(404, "not_found"))
        ELSE LET bk == bookings[q.bookingId]
                 g == statusGuard(bk, q.paymentToken, q.isRemainingPayment)
             IN IF g.code # 0 THEN Responded(q, g)
                ELSE [q EXCEPT !.pc = "save", !.requiresReservation = bk.requiresReservation])
  /\ activityLog' = AppendLog(activityLog, q.bookingId, "payment_submitted", Null)
  /\ UNCHANGED <<bookings, notifications, chain, issued, vers, admin, config, loaded>>

\* step 4 and the guards: findUnique, 404, status / paid-flag / token / lock checks
SubmitFind(q) ==
  /\ q.pc = "find"
  /\ reqs' = BagAdd(BagRemove(reqs, q),
        IF q.bookingId \notin DOMAIN bookings THEN Responded(q, Refuse(404, "not_found"))
        ELSE LET bk == bookings[q.bookingId]
                 g == statusGuard(bk, q.paymentToken, q.isRemainingPayment)
             IN IF g.code # 0 THEN Responded(q, g)
                ELSE [q EXCEPT !.pc = "save", !.requiresReservation = bk.requiresReservation])
  /\ UNCHANGED <<bookings, activityLog, notifications, chain, issued, vers, admin, config, loaded>>

\* variant: every submission is recorded in txHash
recordHash_txHashOnly(bk, h, isRemainingPayment, requiresReservation) ==
  [bk EXCEPT !.chainId = MonadTestnet, !.txHash = h]

\* step 5: chainId (every request of the model names the one configured chain), and the
\* hash in the slot chosen from the flag and the row read in step 4
recordHash(bk, h, isRemainingPayment, requiresReservation) ==
  IF isRemainingPayment THEN [bk EXCEPT !.chainId = MonadTestnet, !.remainingTxHash = h]
  ELSE IF requiresReservation THEN [bk EXCEPT !.chainId = MonadTestnet, !.reservationTxHash = h]
  ELSE [bk EXCEPT !.chainId = MonadTestnet, !.txHash = h]

submittedAction(isRemainingPayment) ==
  IF isRemainingPayment THEN "remaining_payment_submitted" ELSE "payment_submitted"

\* locals of a verifyPayment run between two awaits; the route passes the same literal
\* retry budget to every call
Run(pc, b, h, rem, retryCount) ==
  [pc |-> pc, bookingId |-> b, txHash |-> h, isRemainingPayment |-> rem,
   retryCount |-> retryCount, maxRetries |-> MaxRetries, phase |-> Null,
   expectedAmount |-> NullAmount, paymentToken |-> Null, error |-> Null]

\* variant: the declared token is handed to the run
startVerification_passesToken(q) ==
  [Run("read", q.bookingId, q.txHash, q.isRemainingPayment, 0)
     EXCEPT !.paymentToken = q.paymentToken]

\* verifyPayment(bookingId, txHash, chainId, isRemainingPayment, 10, 3000)
startVerification(q) == Run("read", q.bookingId, q.txHash, q.isRemainingPayment, 0)

\* variant: the handler awaits the receipt before it answers
SubmitSave_awaitsReceipt(q) ==
  /\ q.pc = "save"
  /\ chain[q.txHash] # NoReceipt
  /\ bookings' = [bookings EXCEPT ![q.bookingId] =
                    recordHash(@, q.txHash, q.isRemainingPayment, q.requiresReservation)]
  /\ activityLog' = AppendLog(activityLog, q.bookingId,
                              submittedAction(q.isRemainingPayment), Null)
  /\ vers' = BagAdd(vers, startVerification(q))
  /\ reqs' = BagRemove(reqs, q)
  /\ UNCHANGED <<notifications, chain, issued, admin, config, loaded>>

\* steps 5-8: the hash is saved, the submission is logged, verifyPayment is started
\* without being awaited, and the handler answers 200
SubmitSave(q) ==
  /\ q.pc = "save"
  /\ bookings' = [bookings EXCEPT ![q.bookingId] =
                    recordHash(@, q.txHash, q.isRemainingPayment, q.requiresReservation)]
  /\ activityLog' = AppendLog(activityLog, q.bookingId,
                              submittedAction(q.isRemainingPayment), Null)
  /\ vers' = BagAdd(vers, startVerification(q))
  /\ reqs' = BagRemove(reqs, q)
  /\ UNCHANGED <<notifications, chain, issued, admin, config, loaded>>

\* the 4xx response has left the server
SubmitRespond(q) ==
  /\ q.pc = "responded"
  /\ reqs' = BagRemove(reqs, q)
  /\ UNCHANGED <<bookings, activityLog, notifications, chain, issued, vers, admin, config, loaded>>

(***************************************************************************)
(* verifyPayment                                                           *)
(***************************************************************************)
\* a || b on nullable strings
OrElse(a, b) == IF a # Null THEN a ELSE b

\* steps 1-3 on the row just read: phase, expected amount and token, and what to do next
\*   next = "skip"  : "already verified" return
\*   next = "throw" : an Error caught by the catch block of the retry loop
\*   next = "fail"  : updateBookingStatus(FAILED) then return
\*   next = "fetch" : go on to getTransactionReceipt
resolvePhase(bk, isRemainingPayment) ==
  LET isReservationPayment ==
        bk.requiresReservation /\ ~bk.reservationPaid /\ ~isRemainingPayment
      phase == IF isReservationPayment THEN "reservation"
               ELSE IF isRemainingPayment THEN "remaining" ELSE "full"
      expectedAmount == IF isReservationPayment THEN bk.reservationAmount
                        ELSE IF isRemainingPayment THEN bk.remainingAmount
                        ELSE bk.paymentAmount
      paymentToken == IF isReservationPayment
                         THEN OrElse(bk.reservationToken, OrElse(bk.paymentToken, "USDC"))
                      ELSE IF isRemainingPayment
                         THEN OrElse(bk.remainingToken, OrElse(bk.paymentToken, "USDC"))
                      ELSE OrElse(bk.paymentToken, "USDC")
      next == IF isReservationPayment
                 THEN IF bk.status = "RESERVED" \/ bk.reservationPaid THEN "skip"
                      ELSE "go"
              ELSE IF isRemainingPayment
                 THEN IF ~bk.reservationPaid THEN "throw"
                      ELSE IF bk.status = "CONFIRMED" \/ bk.remainingPaid THEN "skip"
                      ELSE "go"
              ELSE IF bk.status = "CONFIRMED" THEN "skip" ELSE "go"
  IN [phase |-> phase, expectedAmount |-> expectedAmount, paymentToken |-> paymentToken,
      next |-> IF next # "go" THEN next
               ELSE IF expectedAmount = NullAmount \/ expectedAmount = 0 THEN "fail"
               ELSE "fetch",
      error |-> IF next = "throw" THEN "reservation_not_paid"
                ELSE IF next = "go" THEN "payment_not_locked" ELSE Null]

\* variant: a caught error sleeps and loops without drawing on the counter
catch_noIncrement(w, error) ==
  IF w.retryCount + 1 >= w.maxRetries
  THEN [w EXCEPT !.retryCount = w.retryCount + 1, !.pc = "fail_update", !.error = error]
  ELSE [Run("read", w.bookingId, w.txHash, w.isRemainingPayment, w.retryCount)
          EXCEPT !.maxRetries = w.maxRetries]

\* the catch block: retryCount++, FAILED once the budget is used up, else sleep and loop
catch(w, error) ==
  IF w.retryCount + 1 >= w.maxRetries
  THEN [w EXCEPT !.retryCount = w.retryCount + 1, !.pc = "fail_update", !.error = error]
  ELSE [Run("read", w.bookingId, w.txHash, w.isRemainingPayment, w.retryCount + 1)
          EXCEPT !.maxRetries = w.maxRetries]

\* variant: a single absent receipt fails the booking
receiptAbsent_failFast(w) ==
  [w EXCEPT !.retryCount = w.retryCount + 1, !.pc = "fail_update", !.error = "timeout"]

\* the `if (!receipt)` branch: retryCount++, retry or give up with a timeout
receiptAbsent(w) ==
  IF w.retryCount + 1 < w.maxRetries
  THEN [Run("read", w.bookingId, w.txHash, w.isRemainingPayment, w.retryCount + 1)
          EXCEPT !.maxRetries = w.maxRetries]
  ELSE [w EXCEPT !.retryCount = w.retryCount + 1, !.pc = "fail_update", !.error = "timeout"]

\* variant: a receipt that shows up only after a retry is no longer accepted
afterFetch_firstAttemptOnly(w, receipt) ==
  LET outcome == classifyReceipt(receipt, w.paymentToken, w.expectedAmount)
  IN IF receipt = NoReceipt THEN receiptAbsent(w)
     ELSE IF outcome = "throw_token_not_configured" THEN catch(w, outcome)
     ELSE IF outcome = "ok" /\ w.retryCount = 0 THEN [w EXCEPT !.pc = "success_update"]
     ELSE IF outcome = "ok" THEN [w EXCEPT !.pc = "fail_update", !.error = "timeout"]
     ELSE [w EXCEPT !.pc = "fail_update", !.error = outcome]

\* steps 5-9 of an iteration that got as far as getTransactionReceipt
afterFetch(w, receipt) ==
  LET outcome == classifyReceipt(receipt, w.paymentToken, w.expectedAmount)
  IN IF receipt = NoReceipt THEN receiptAbsent(w)
     ELSE IF outcome = "throw_token_not_configured" THEN catch(w, outcome)
     ELSE IF outcome = "ok" THEN [w EXCEPT !.pc = "success_update"]
     ELSE [w EXCEPT !.pc = "fail_update", !.error = outcome]

\* what one loop iteration makes of the row and of the node's answer, up to its update
attempt(w, bk, receipt, rpcFails) ==
  LET p == resolvePhase(bk, w.isRemainingPayment)
      w1 == [w EXCEPT !.phase = p.phase, !.expectedAmount = p.expectedAmount,
                      !.paymentToken = p.paymentToken]
  IN CASE p.next = "skip" -> [w1 EXCEPT !.pc = "skipped"]
       [] p.next = "throw" -> catch(w1, p.error)
       [] p.next = "fail" -> [w1 EXCEPT !.pc = "fail_update", !.error = p.error]
       [] OTHER -> IF rpcFails THEN catch(w1, "rpc_error") ELSE afterFetch(w1, receipt)

\* one loop iteration up to its store update: findUnique, phase resolution, early
\* returns, lock check, getTransactionReceipt, receipt status and transfer-log matching
\* (and getTransaction on a match).  rpcFails: the node call throws instead of answering.
\* A run that returns early ("skipped") leaves the bag: nothing of it remains.
VerifyAttempt(w, rpcFails) ==
  /\ w.pc = "read"
  /\ LET w2 == attempt(w, bookings[w.bookingId], chain[txOf(w.txHash)], rpcFails)
     IN vers' = IF w2.pc = "skipped" THEN BagRemove(vers, w)
                ELSE BagAdd(BagRemove(vers, w), w2)
  /\ UNCHANGED <<bookings, activityLog, notifications, chain, issued, reqs, admin, config, loaded>>

\* data of the three success updates (db.booking.update, where: { bookingId })
successData(bk, phase, h, token) ==
  IF phase = "reservation"
  THEN [bk EXCEPT !.status = "RESERVED", !.reservationPaid = TRUE,
                  !.reservationTxHash = h, !.reservationToken = token,
                  !.blockNumber = blockNumberOf(h), !.senderAddress = senderOf(h),
                  !.gasUsed = gasUsedOf(h)]
  ELSE IF phase = "remaining"
  THEN [bk EXCEPT !.status = "CONFIRMED", !.remainingPaid = TRUE,
                  !.remainingTxHash = h, !.remainingToken = token]
  ELSE [bk EXCEPT !.status = "CONFIRMED",
                  !.blockNumber = blockNumberOf(h), !.senderAddress = senderOf(h),
                  !.gasUsed = gasUsedOf(h)]

successAction(phase) ==
  IF phase = "reservation" THEN "reservation_paid"
  ELSE IF phase = "remaining" THEN "remaining_payment_confirmed"
  ELSE "payment_confirmed"

notification(b, phase) ==
  [bookingId |-> b, type |-> IF phase = "reservation" THEN "reservation_confirmed"
                             ELSE "confirmed"]

\* variant: an exception of the mailer reaches the catch block of the retry loop
VerifySuccess_mailThrows(w, mailed) ==
  /\ w.pc = "success_update"
  /\ bookings' = [bookings EXCEPT ![w.bookingId] =
                    successData(@, w.phase, w.txHash, w.paymentToken)]
  /\ activityLog' = AppendLog(activityLog, w.bookingId, successAction(w.phase), Null)
  /\ notifications' = IF mailed THEN BagAdd(notifications, notification(w.bookingId, w.phase))
                      ELSE notifications
  /\ vers' = IF mailed THEN BagRemove(vers, w)
             ELSE BagAdd(BagRemove(vers, w), catch(w, "email_error"))
  /\ UNCHANGED <<chain, issued, reqs, admin, config, loaded>>

\* success branch: the update, its activity-log row and the e-mail handed to the mailer
\* (mailed = FALSE: the mailer throws, which is caught locally; only the reservation
\* branch then logs email_failed); then the run returns
VerifySuccess(w, mailed) ==
  /\ w.pc = "success_update"
  /\ bookings' = [bookings EXCEPT ![w.bookingId] =
                    successData(@, w.phase, w.txHash, w.paymentToken)]
  /\ LET logged == AppendLog(activityLog, w.bookingId, successAction(w.phase), Null)
     IN activityLog' = IF ~mailed /\ w.phase = "reservation"
                       THEN AppendLog(logged, w.bookingId, "email_failed", Null)
                       ELSE logged
  /\ notifications' = IF mailed THEN BagAdd(notifications, notification(w.bookingId, w.phase))
                      ELSE notifications
  /\ vers' = BagRemove(vers, w)
  /\ UNCHANGED <<chain, issued, reqs, admin, config, loaded>>

\* success branch in which db.activityLog.create throws after db.booking.update has
\* committed: the two writes are separate awaits, so the row keeps the new status, no
\* log row exists, no e-mail is sent, and the exception lands in the catch block
VerifySuccessLogFails(w) ==
  /\ w.pc = "success_update"
  /\ bookings' = [bookings EXCEPT ![w.bookingId] =
                    successData(@, w.phase, w.txHash, w.paymentToken)]
  /\ vers' = BagAdd(BagRemove(vers, w), catch(w, "store_error"))
  /\ UNCHANGED <<activityLog, notifications, chain, issued, reqs, admin, config, loaded>>

(***************************************************************************)
(* updateBookingStatus(bookingId, FAILED, details)                         *)
(***************************************************************************)
\* variant: the status update also clears the paid flags
statusData_reset(bk, status) ==
  [bk EXCEPT !.status = status, !.reservationPaid = FALSE, !.remainingPaid = FALSE]

statusData(bk, status) == [bk EXCEPT !.status = status]

\* variant: the failure is logged but the row keeps its status
VerifyFail_logOnly(w) ==
  /\ w.pc = "fail_update"
  /\ activityLog' = AppendLog(activityLog, w.bookingId, "payment_failed", w.error)
  /\ vers' = BagRemove(vers, w)
  /\ UNCHANGED <<bookings, notifications, chain, issued, reqs, admin, config, loaded>>

\* the unconditional status update, then the payment_failed log row; the run returns
VerifyFail(w) ==
  /\ w.pc = "fail_update"
  /\ bookings' = [bookings EXCEPT ![w.bookingId] = statusData(@, "FAILED")]
  /\ activityLog' = AppendLog(activityLog, w.bookingId, "payment_failed", w.error)
  /\ vers' = BagRemove(vers, w)
  /\ UNCHANGED <<notifications, chain, issued, reqs, admin, config, loaded>>

(***************************************************************************)
(* Specification                                                           *)
(***************************************************************************)
Next ==
  \/ \E h \in Hashes : Mine(h)
  \/ \E b \in BookingIds : ApproveFind(b)
  \/ \E a \in BagToSet(admin) : ApproveUpdate(a)
  \/ \E b \in BookingIds : RejectFind(b)
  \/ \E a \in BagToSet(admin) : RejectUpdate(a)
  \/ \E b \in BookingIds \cup {UnknownBooking}, h \in Hashes \cup {MalformedHash},
        tok \in {"USDC", Null}, rem \in BOOLEAN : SubmitReceive(b, h, tok, rem)
  \/ \E q \in BagToSet(reqs) : SubmitFind(q)
  \/ \E q \in BagToSet(reqs) : SubmitSave(q)
  \/ \E q \in BagToSet(reqs) : SubmitRespond(q)
  \/ \E w \in BagToSet(vers), rpcFails \in BOOLEAN : VerifyAttempt(w, rpcFails)
  \/ \E w \in BagToSet(vers), mailed \in BOOLEAN : VerifySuccess(w, mailed)
  \/ \E w \in BagToSet(vers) : VerifySuccessLogFails(w)
  \/ \E w \in BagToSet(vers) : VerifyFail(w)

Spec == Init /\ [][Next]_vars

(***************************************************************************)
(* Loading lib/config.ts                                                   *)
(***************************************************************************)
\* the module body runs to its end: validateConfiguration() writes its errors, or the
\* "Config validated" line, to the console and returns
LoadConfig ==
  /\ ~loaded
  /\ loaded' = TRUE
  /\ UNCHANGED <<bookings, activityLog, notifications, chain, issued, reqs, vers, admin,
                 config>>

InitConfig ==
  /\ config \in Configs
  /\ loaded = FALSE
  /\ bookings = [b \in BookingIds |-> ApprovedShortStay]
  /\ activityLog = EmptyBag
  /\ notifications = EmptyBag
  /\ chain = [h \in Hashes |-> NoReceipt]
  /\ issued = 0
  /\ reqs = EmptyBag
  /\ vers = EmptyBag
  /\ admin = EmptyBag

NextConfig == LoadConfig

SpecConfig == InitConfig /\ [][NextConfig]_vars

(***************************************************************************)
(* verifyPayment called with any retry budget, over a store that may throw *)
(***************************************************************************)
\* rows a call may find: short stay, long stay before and after its reservation payment,
\* and a stay whose payment was never locked
RowsForRetry ==
  { ApprovedShortStay,
    [NewBooking(3, 60, 30, "USDC") EXCEPT !.status = "PENDING", !.requiresReservation = TRUE,
        !.reservationAmount = ReservationFee, !.remainingAmount = 60 - ReservationFee],
    [NewBooking(3, 60, 30, "USDC") EXCEPT !.status = "RESERVED", !.requiresReservation = TRUE,
        !.reservationAmount = ReservationFee, !.remainingAmount = 60 - ReservationFee,
        !.reservationPaid = TRUE, !.reservationTxHash = "0xaa"],
    [NewBooking(2, 30, NullAmount, Null) EXCEPT !.status = "PENDING"] }

\* the call verifyPayment(bookingId, txHash, chainId, isRemainingPayment, maxRetries)
Call(b, h, rem, maxRetries) ==
  [Run("start", b, h, rem, 0) EXCEPT !.maxRetries = maxRetries]

InitRetry ==
  /\ \E row \in RowsForRetry :
        bookings = [b \in BookingIds |-> IF b = "b1" THEN row ELSE ApprovedShortStay]
  /\ activityLog = EmptyBag
  /\ notifications = EmptyBag
  /\ chain = [h \in Hashes |-> NoReceipt]
  /\ issued = 0
  /\ reqs = EmptyBag
  /\ \E h \in Hashes, rem \in BOOLEAN, n1, n2 \in 0..MaxRetries :
        vers = SetToBag({Call("b1", h, rem, n1), Call("b2", "0xbb", FALSE, n2)})
  /\ admin = EmptyBag
  /\ config = StaticConfig
  /\ loaded = TRUE

\* `let retryCount = 0; while (retryCount < maxRetries)`: the first evaluation of the
\* loop condition; when it is false the function returns at once
VerifyStart(w) ==
  /\ w.pc = "start"
  /\ vers' = IF w.retryCount < w.maxRetries
             THEN BagAdd(BagRemove(vers, w), [w EXCEPT !.pc = "read"])
             ELSE BagRemove(vers, w)
  /\ UNCHANGED <<bookings, activityLog, notifications, chain, issued, reqs, admin, config, loaded>>

\* an iteration whose db.booking.findUnique throws: straight to the catch block
VerifyAttemptStoreThrows(w) ==
  /\ w.pc = "read"
  /\ vers' = BagAdd(BagRemove(vers, w), catch(w, "store_error"))
  /\ UNCHANGED <<bookings, activityLog, notifications, chain, issued, reqs, admin, config, loaded>>

\* a success branch whose db.booking.update throws: nothing is written
VerifySuccessStoreThrows(w) ==
  /\ w.pc = "success_update"
  /\ vers' = BagAdd(BagRemove(vers, w), catch(w, "store_error"))
  /\ UNCHANGED <<bookings, activityLog, notifications, chain, issued, reqs, admin, config, loaded>>

\* errors that reach updateBookingStatus through the catch block
ThrownErrors == {"reservation_not_paid", "throw_token_not_configured", "rpc_error",
                 "store_error"}

\* updateBookingStatus throws, before its status update (written = FALSE) or after it
\* at db.activityLog.create (written = TRUE).  Called from the try block the exception
\* lands in the catch block; called from the catch block it leaves verifyPayment, whose
\* promise rejects into the route's .catch
VerifyFailStoreThrows(w, written) ==
  /\ w.pc = "fail_update"
  /\ bookings' = IF written THEN [bookings EXCEPT ![w.bookingId] = statusData(@, "FAILED")]
                 ELSE bookings
  /\ vers' = IF w.error \in ThrownErrors THEN BagRemove(vers, w)
             ELSE BagAdd(BagRemove(vers, w), catch(w, "store_error"))
  /\ UNCHANGED <<activityLog, notifications, chain, issued, reqs, admin, config, loaded>>

\* a step of some pending call
StepRetry ==
  \/ \E w \in BagToSet(vers) : VerifyStart(w)
  \/ \E w \in BagToSet(vers), rpcFails \in BOOLEAN : VerifyAttempt(w, rpcFails)
  \/ \E w \in BagToSet(vers) : VerifyAttemptStoreThrows(w)
  \/ \E w \in BagToSet(vers), mailed \in BOOLEAN : VerifySuccess(w, mailed)
  \/ \E w \in BagToSet(vers) : VerifySuccessLogFails(w)
  \/ \E w \in BagToSet(vers) : VerifySuccessStoreThrows(w)
  \/ \E w \in BagToSet(vers) : VerifyFail(w)
  \/ \E w \in BagToSet(vers), written \in BOOLEAN : VerifyFailStoreThrows(w, written)

NextRetry ==
  \/ \E h \in Hashes : Mine(h)
  \/ StepRetry

\* the event loop resumes every call whose awaited promise has settled (a database or
\* node answer, an exception, the retry timer); a transaction need never be mined
SpecRetry == InitRetry /\ [][NextRetry]_vars /\ WF_vars(StepRetry)

(***************************************************************************)
(* Submissions over every well-formed input: either letter case, any token *)
(***************************************************************************)
\* a short stay paid in full with transaction 0xaa, submitted in lower case
PaidShortStay ==
  [NewBooking(2, 30, 30, "USDC") EXCEPT !.status = "CONFIRMED", !.txHash = "0xaa",
        !.chainId = MonadTestnet, !.blockNumber = blockNumberOf("0xaa"),
        !.senderAddress = senderOf("0xaa"), !.gasUsed = gasUsedOf("0xaa")]

\* a long stay approved with its reservation fee locked in USDT
LockedLongStay ==
  [NewBooking(3, 60, 30, "USDT") EXCEPT !.status = "PENDING", !.requiresReservation = TRUE,
        !.reservationAmount = ReservationFee, !.remainingAmount = 60 - ReservationFee,
        !.reservationToken = "USDT"]

\* booking b1 is paid with 0xaa, booking b2 is approved and locked.  `issued` counts the
\* requests received from here on.
InitAnyInput ==
  /\ \E row \in {ApprovedShortStay, LockedLongStay} :
        bookings = [b \in BookingIds |-> IF b = "b1" THEN PaidShortStay ELSE row]
  /\ activityLog = SetToBag({LogRow("b1", "waitlist_approved", Null),
                             LogRow("b2", "waitlist_approved", Null),
                             LogRow("b1", "payment_submitted", Null),
                             LogRow("b1", "payment_confirmed", Null)})
  /\ notifications = SetToBag({notification("b1", "full")})
  /\ chain = [h \in Hashes |-> IF h = "0xaa" THEN ReceiptPays30 ELSE NoReceipt]
  /\ issued = 0
  /\ reqs = EmptyBag
  /\ vers = EmptyBag
  /\ admin = EmptyBag
  /\ config = StaticConfig
  /\ loaded = TRUE

NextAnyInput ==
  \/ \E h \in Hashes : Mine(h)
  \/ \E b \in BookingIds, h \in Spellings \cup {MalformedHash}, tok \in Tokens \cup {Null},
        rem \in BOOLEAN : SubmitReceive(b, h, tok, rem)
  \/ \E q \in BagToSet(reqs) : SubmitFind(q)
  \/ \E q \in BagToSet(reqs) : SubmitSave(q)
  \/ \E q \in BagToSet(reqs) : SubmitRespond(q)
  \/ \E w \in BagToSet(vers), rpcFails \in BOOLEAN : VerifyAttempt(w, rpcFails)
  \/ \E w \in BagToSet(vers), mailed \in BOOLEAN : VerifySuccess(w, mailed)
  \/ \E w \in BagToSet(vers) : VerifySuccessLogFails(w)
  \/ \E w \in BagToSet(vers) : VerifyFail(w)

SpecAnyInput == InitAnyInput /\ [][NextAnyInput]_vars

(***************************************************************************)
(* The program with a reservation payment under verification               *)
(***************************************************************************)
\* a long stay after approve, lock of the 30 USDC fee and two accepted reservation
\* submissions, of transaction 0xaa and then of 0xbb, whose hash replaced the first one
SubmittedLongStay ==
  [NewBooking(3, 60, 30, "USDC") EXCEPT !.status = "PENDING",
                                        !.requiresReservation = TRUE,
                                        !.reservationAmount = ReservationFee,
                                        !.remainingAmount = 60 - ReservationFee,
                                        !.reservationTxHash = "0xbb",
                                        !.chainId = MonadTestnet]

\* the state in which the run of the first submission has found the matching receipt of
\* 0xaa and stands before its success update, and the run of the second has not read the
\* row yet, 0xbb not being mined; the other booking, whose payment was never locked, is
\* still on the waitlist.  One of the two submissions counts against MaxSubmits.
InitInFlight ==
  /\ bookings = [b \in BookingIds |-> IF b = "b1" THEN SubmittedLongStay
                                      ELSE NewBooking(2, 30, NullAmount, Null)]
  /\ activityLog = SetToBag({LogRow("b1", "waitlist_approved", Null)})
                     (+) [r \in {LogRow("b1", "payment_submitted", Null)} |-> 2]
  /\ notifications = EmptyBag
  /\ chain = [h \in Hashes |-> IF h = "0xaa" THEN ReceiptPays30 ELSE NoReceipt]
  /\ issued = 1
  /\ reqs = EmptyBag
  /\ vers = SetToBag({attempt(Run("read", "b1", "0xaa", FALSE, 0),
                              SubmittedLongStay, ReceiptPays30, FALSE),
                      Run("read", "b1", "0xbb", FALSE, 0)})
  /\ admin = EmptyBag
  /\ config = StaticConfig
  /\ loaded = TRUE

SpecInFlight == InitInFlight /\ [][Next]_vars

TypeOK ==
  /\ \A b \in BookingIds : bookings[b].status \in Statuses
  /\ issued \in 0..MaxSubmits
  /\ IsABag(reqs) /\ IsABag(vers) /\ IsABag(activityLog) /\ IsABag(notifications)
  /\ IsABag(admin) /\ BagCardinality(admin) <= MaxAdmin

(***************************************************************************)
(* Properties                                                              *)
(***************************************************************************)
Phases == {"full", "reservation", "remaining"}

\* hash h is bound to a consumed obligation of booking b in the given phase
Consumed(b, phase, h) ==
  LET bk == bookings[b] IN
  CASE phase = "full" -> bk.txHash = h /\ bk.status = "CONFIRMED"
    [] phase = "reservation" -> bk.reservationTxHash = h /\ bk.reservationPaid
    [] phase = "remaining" -> bk.remainingTxHash = h /\ bk.remainingPaid

ConsumedBy(h) == {bp \in BookingIds \X Phases : Consumed(bp[1], bp[2], h)}

\* the run / the request with these locals takes the step
RunSteps(w) == CopiesIn(w, vers') < CopiesIn(w, vers)
RequestSteps(q) == CopiesIn(q, reqs') < CopiesIn(q, reqs)

\* C1: no double-spend -- every transaction hash is bound to a consumed obligation
\* for at most one (booking, phase) pair
C1_NoDoubleSpend == \A h \in Hashes : Cardinality(ConsumedBy(h)) <= 1

\* C2: for one booking and one phase at most one run performs the success update:
\* the activity log never holds a second success row of the same phase for a booking
C2_SingleSuccess ==
  \A b \in BookingIds : \A phase \in Phases :
     CopiesIn(LogRow(b, successAction(phase), Null), activityLog) <= 1

\* the phase a run is called for is already in its terminal success state
TerminalFor(bk, isRemainingPayment) ==
  \/ ~bk.requiresReservation /\ ~isRemainingPayment /\ bk.status = "CONFIRMED"
  \/ bk.requiresReservation /\ ~isRemainingPayment /\ bk.reservationPaid
       /\ bk.status = "RESERVED"
  \/ isRemainingPayment /\ bk.remainingPaid

\* C3: idempotent re-verification -- a run that finds its phase already in the
\* terminal success state returns at once: it changes no booking, log or notification
\* and does not go on to an update
C3_IdempotentReverify ==
  [][\A w \in BagToSet(vers) :
       (w.pc = "read" /\ RunSteps(w) /\ TerminalFor(bookings[w.bookingId], w.isRemainingPayment))
       => /\ vers' = BagRemove(vers, w)
          /\ UNCHANGED <<bookings, activityLog, notifications>>]_vars

\* value of the first Transfer log of the token that is sent to the treasury (-1: none)
FirstTreasuryValue(receipt, token) ==
  LET tl == transferLogs(receipt, tokenInfo(token).address)
  IN IF receipt.status # "success" \/ TreasuryIdx(tl) = {} THEN -1
     ELSE tl[Min(TreasuryIdx(tl))].data

\* the receipt of the run shows a first treasury transfer that differs from the
\* expected amount in base units
AmountDiffers(w) ==
  /\ FirstTreasuryValue(chain[w.txHash], w.paymentToken) # -1
  /\ FirstTreasuryValue(chain[w.txHash], w.paymentToken) # w.expectedAmount * 10^TokenDecimals

\* reasons of a FAILED update made without a receipt having been examined
NotClassified == {"rpc_error", "timeout", "payment_not_locked", "reservation_not_paid"}

\* C4: exact-amount law -- a run that got a receipt whose first treasury transfer
\* differs from the expected base-unit amount never stands before a success update, it
\* stands before the FAILED update with the amount-mismatch reason; and that update
\* sets FAILED and logs the reason
C4_ExactAmount ==
  /\ [](\A w \in BagToSet(vers) :
          (w.pc \in {"success_update", "fail_update"} /\ AmountDiffers(w)
             /\ w.error \notin NotClassified)
          => (w.pc = "fail_update" /\ w.error = "amount_mismatch"))
  /\ [][\A w \in BagToSet(vers) :
          (w.pc = "fail_update" /\ RunSteps(w))
          => /\ bookings'[w.bookingId].status = "FAILED"
             /\ CopiesIn(LogRow(w.bookingId, "payment_failed", w.error), activityLog')
                  = CopiesIn(LogRow(w.bookingId, "payment_failed", w.error), activityLog) + 1]_vars

\* the transfer of 29999999 for an expected 30 USDC has failed a booking
C4_Witness ==
  \E b \in BookingIds : \E h \in Hashes :
     /\ chain[h] = ReceiptOffByOne
     /\ h \in {bookings[b].txHash, bookings[b].reservationTxHash}
     /\ bookings[b].status = "FAILED"
     /\ BagIn(LogRow(b, "payment_failed", "amount_mismatch"), activityLog)

\* C5: phase ordering -- no remaining-phase submission gets past the handler while
\* reservationPaid is false: no hash recorded, no request accepted, no run started
C5_PhaseOrdering ==
  /\ \A b \in BookingIds : bookings[b].remainingTxHash # Null => bookings[b].reservationPaid
  /\ \A q \in BagToSet(reqs) :
        (q.pc = "save" /\ q.isRemainingPayment) => bookings[q.bookingId].reservationPaid
  /\ \A w \in BagToSet(vers) : w.isRemainingPayment => bookings[w.bookingId].reservationPaid

\* the status expected for the phase of a submission
ExpectedStatus(isRemainingPayment) == IF isRemainingPayment THEN "RESERVED" ELSE "PENDING"

\* the request is accepted by this step / is refused with this code by this step
Accepted(q) == \E q2 \in BagToSet(reqs') :
                  q2.pc = "save" /\ CopiesIn(q2, reqs') > CopiesIn(q2, reqs)
RefusedWith(q, code) == \E q2 \in BagToSet(reqs') :
                  /\ q2.pc = "responded" /\ CopiesIn(q2, reqs') > CopiesIn(q2, reqs)
                  /\ q2.code = code

\* C6: status guard -- a submission for an existing booking is accepted only when the
\* booking is in the status expected for its phase (remaining: RESERVED, reservation and
\* full: PENDING), and in every other status it is refused with 409
C6_StatusGuard ==
  [][\A q \in BagToSet(reqs) :
       (q.pc = "find" /\ q.bookingId \in BookingIds /\ RequestSteps(q))
       => LET ok == bookings[q.bookingId].status = ExpectedStatus(q.isRemainingPayment)
          IN /\ Accepted(q) => ok
             /\ ~ok => RefusedWith(q, 409)]_vars

\* C7: every update of a run (success or FAILED) is made on a booking that is, at that
\* moment, in the status its phase requires (remaining: RESERVED, else PENDING)
C7_GuardAtUpdate ==
  [][\A w \in BagToSet(vers) :
       (w.pc \in {"success_update", "fail_update"} /\ RunSteps(w))
       => bookings[w.bookingId].status
            = (IF w.phase = "remaining" THEN "RESERVED" ELSE "PENDING")]_vars

LifecycleEdges ==
  { <<"WAITLISTED", "PENDING">>, <<"WAITLISTED", "CANCELLED">>, <<"PENDING", "RESERVED">>,
    <<"PENDING", "CONFIRMED">>, <<"RESERVED", "CONFIRMED">>, <<"PENDING", "FAILED">>,
    <<"RESERVED", "FAILED">> }

\* C8: every status change of a booking is one of the lifecycle edges
C8_Lifecycle ==
  [][\A b \in BookingIds :
       bookings'[b].status # bookings[b].status
       => <<bookings[b].status, bookings'[b].status>> \in LifecycleEdges]_vars

\* C9: the paid flags are monotonic -- no step resets reservationPaid or remainingPaid
C9_PaidMonotonic ==
  [][\A b \in BookingIds :
       /\ bookings[b].reservationPaid => bookings'[b].reservationPaid
       /\ bookings[b].remainingPaid => bookings'[b].remainingPaid]_vars

\* a FAILED update has acted on a booking whose reservation was already paid, and the
\* flag is still set
C9_Witness ==
  \E b \in BookingIds :
     /\ bookings[b].reservationPaid
     /\ bookings[b].status = "FAILED"
     /\ \E e \in NotClassified \cup {"amount_mismatch"} :
           BagIn(LogRow(b, "payment_failed", e), activityLog)

\* C10: the idempotency guard answers "used" exactly for the hashes bound to a consumed
\* obligation: a submission is refused as TRANSACTION_ALREADY_USED iff its hash is
\* consumed at that moment; a hash merely recorded on a PENDING / RESERVED / FAILED
\* booking passes
C10_UsedIffConsumed ==
  /\ [](\A h \in Hashes : checkTransactionUsed(bookings, h) <=> (ConsumedBy(h) # {}))
  /\ [][\A q \in BagToSet(reqs') :
       (CopiesIn(q, reqs') > CopiesIn(q, reqs) /\ q.txHash \in Hashes
          /\ (q.pc = "find" \/ q.error \notin {"missing_fields", "invalid_hash"})
          /\ issued' = issued + 1)
       => ((q.error = "TRANSACTION_ALREADY_USED") <=> (ConsumedBy(q.txHash) # {}))]_vars

\* a submission carrying a consumed hash has been refused as already used
C10_Witness ==
  \E q \in BagToSet(reqs) :
     /\ q.pc = "responded" /\ q.error = "TRANSACTION_ALREADY_USED"
     /\ ConsumedBy(q.txHash) # {}

\* a refusal of a submission is produced by this step
Refusing == \E q \in BagToSet(reqs') :
               q.pc = "responded" /\ CopiesIn(q, reqs') > CopiesIn(q, reqs)

\* C11: a rejected submitPayment has no effect -- the step that refuses a submission, on
\* whichever rejection path, and the step that delivers the refusal write no booking
\* field, append no activity-log row and start no verification
C11_RefusalNoEffect ==
  [][(Refusing \/ \E q \in BagToSet(reqs) : q.pc = "responded" /\ RequestSteps(q))
       => UNCHANGED <<bookings, activityLog, notifications, vers>>]_vars

\* refusals by the guards (here: token mismatch and unknown booking) have been delivered
\* while the table, the log and the set of runs are as they were at start
C11_Witness ==
  /\ \E q \in BagToSet(reqs) : q.pc = "responded" /\ q.error = "token_mismatch"
  /\ \E q \in BagToSet(reqs) : q.pc = "responded" /\ q.error = "not_found"
  /\ vers = EmptyBag

\* the 409 response with code TRANSACTION_ALREADY_USED for a submission carrying h
ReplayRefusal(h) ==
  [pc |-> "responded", bookingId |-> Null, txHash |-> h, paymentToken |-> Null,
   isRemainingPayment |-> FALSE, requiresReservation |-> FALSE,
   code |-> 409, error |-> "TRANSACTION_ALREADY_USED"]

\* C12: a well-formed submission whose hash is consumed gets the replay refusal (409,
\* TRANSACTION_ALREADY_USED) for every bookingId, known or not, and every phase flag,
\* i.e. before the lookup and the status guard; and no later step of the handler (404,
\* status, paid-flag, token and lock refusals) ever answers with that code
C12_ReplayFirst ==
  /\ [](\A b \in BookingIds \cup {UnknownBooking}, rem \in BOOLEAN, h \in Hashes :
          (issued < MaxSubmits /\ ConsumedBy(h) # {})
          => ENABLED (SubmitReceive(b, h, "USDC", rem)
                        /\ reqs' = BagAdd(reqs, ReplayRefusal(h))))
  /\ [][\A q \in BagToSet(reqs') :
          (q.pc = "responded" /\ CopiesIn(q, reqs') > CopiesIn(q, reqs)
             /\ q.error = "TRANSACTION_ALREADY_USED")
          => (issued' = issued + 1 /\ q.code = 409)]_vars

\* a replay has been refused while the other booking is not even payable
C12_Witness ==
  \E h \in Hashes : \E b \in BookingIds :
     /\ BagIn(ReplayRefusal(h), reqs)
     /\ ConsumedBy(h) # {}
     /\ bookings[b].status \in {"WAITLISTED", "CANCELLED"}

\* what the current loop iteration of run w makes of the store and of the node's answer
Answered(w) == attempt(w, bookings[w.bookingId], chain[w.txHash], FALSE)

\* the run as it starts its next attempt
Retried(w) == Run("read", w.bookingId, w.txHash, w.isRemainingPayment, w.retryCount + 1)

\* run w verifies the full payment of a PENDING booking whose payment is locked
FullPending(w) ==
  LET bk == bookings[w.bookingId] IN
  /\ ~bk.requiresReservation /\ ~w.isRemainingPayment /\ bk.status = "PENDING"
  /\ bk.paymentToken # Null /\ bk.paymentAmount > 0

\* the receipt of w's transaction pays exactly the locked amount to the treasury
Matching(w) ==
  LET bk == bookings[w.bookingId] IN
  FirstTreasuryValue(chain[w.txHash], bk.paymentToken) = bk.paymentAmount * 10^TokenDecimals

\* C13: retry-then-succeed -- for a PENDING full-payment booking, an attempt that finds
\* no receipt while the budget lasts only starts the next attempt; no attempt changes a
\* booking or the log; the attempt that finds the matching receipt goes to the success
\* update whatever the number of earlier attempts; and that update sets CONFIRMED and
\* appends exactly one payment_confirmed row
C13_RetryThenSucceed ==
  /\ [](\A w \in BagToSet(vers) :
          (w.pc = "read" /\ FullPending(w))
          => /\ (chain[w.txHash] = NoReceipt /\ w.retryCount + 1 < MaxRetries)
                   => Answered(w) = Retried(w)
             /\ Matching(w)
                   => /\ Answered(w).pc = "success_update" /\ Answered(w).phase = "full"
                      /\ Answered(w).retryCount = w.retryCount)
  /\ [][\A w \in BagToSet(vers) :
          /\ (w.pc = "read" /\ RunSteps(w))
                => UNCHANGED <<bookings, activityLog, notifications>>
          /\ (w.pc = "success_update" /\ w.phase = "full" /\ vers' = BagRemove(vers, w))
                => /\ bookings'[w.bookingId].status = "CONFIRMED"
                   /\ CopiesIn(LogRow(w.bookingId, "payment_confirmed", Null), activityLog')
                        = CopiesIn(LogRow(w.bookingId, "payment_confirmed", Null), activityLog) + 1
                   /\ \A r \in BagToSet(activityLog') :
                         r # LogRow(w.bookingId, "payment_confirmed", Null)
                         => CopiesIn(r, activityLog') = CopiesIn(r, activityLog)]_vars

\* after at least one earlier attempt a run has found the matching receipt of a booking
\* that is still PENDING
C13_Witness ==
  \E w \in BagToSet(vers) :
     /\ w.pc = "success_update" /\ w.phase = "full" /\ w.retryCount >= 1
     /\ bookings[w.bookingId].status = "PENDING"
     /\ ~BagIn(LogRow(w.bookingId, "payment_confirmed", Null), activityLog)

\* C14: exhaustion -- a run stands before the FAILED update with the timeout reason only
\* after maxRetries attempts; an attempt that finds no receipt starts the next attempt
\* while the budget lasts and gives up with the timeout reason on the last one; no
\* attempt changes a booking; the update then sets FAILED and logs the timeout
C14_Exhaustion ==
  /\ [](\A w \in BagToSet(vers) :
          /\ (w.pc = "fail_update" /\ w.error = "timeout") => w.retryCount = MaxRetries
          /\ (w.pc = "read" /\ chain[w.txHash] = NoReceipt
                /\ resolvePhase(bookings[w.bookingId], w.isRemainingPayment).next = "fetch")
                => IF w.retryCount + 1 < MaxRetries
                   THEN Answered(w) = Retried(w)
                   ELSE /\ Answered(w).pc = "fail_update" /\ Answered(w).error = "timeout"
                        /\ w.retryCount + 1 = MaxRetries)
  /\ [][\A w \in BagToSet(vers) :
          /\ (w.pc = "read" /\ RunSteps(w)) => UNCHANGED bookings
          /\ (w.pc = "fail_update" /\ w.error = "timeout" /\ RunSteps(w))
                => /\ bookings'[w.bookingId].status = "FAILED"
                   /\ vers' = BagRemove(vers, w)
                   /\ CopiesIn(LogRow(w.bookingId, "payment_failed", "timeout"), activityLog')
                        = CopiesIn(LogRow(w.bookingId, "payment_failed", "timeout"), activityLog) + 1]_vars

\* a booking has been failed for a transaction that is still not mined
C14_Witness ==
  \E b \in BookingIds : \E h \in Hashes :
     /\ chain[h] = NoReceipt
     /\ h \in {bookings[b].txHash, bookings[b].reservationTxHash, bookings[b].remainingTxHash}
     /\ bookings[b].status = "FAILED"
     /\ BagIn(LogRow(b, "payment_failed", "timeout"), activityLog)

\* what a present receipt shows for a payment of `amount` in `token`
Diagnosis(receipt, token, amount) ==
  IF receipt.status # "success" THEN "tx_failed"
  ELSE IF \A i \in 1..Len(receipt.logs) :
             \/ receipt.logs[i].topic0 # TRANSFER_TOPIC
             \/ toLowerCase(receipt.logs[i].address) # toLowerCase(tokenInfo(token).address)
       THEN "no_transfer"
  ELSE IF FirstTreasuryValue(receipt, token) = -1 THEN "wrong_recipient"
  ELSE IF FirstTreasuryValue(receipt, token) # amount * 10^TokenDecimals
       THEN "amount_mismatch"
  ELSE "ok"

Mismatches == {"tx_failed", "no_transfer", "wrong_recipient", "amount_mismatch"}

\* C15: on-chain mismatches are terminal -- an attempt that gets a receipt showing a
\* reverted transaction, no Transfer event of the expected token, no transfer to the
\* treasury or a wrong amount goes to the FAILED update with that reason without using
\* up an attempt; the update sets FAILED, appends exactly one payment_failed row with
\* the reason, and the run ends there
C15_MismatchTerminal ==
  /\ [](\A w \in BagToSet(vers) :
          LET p == resolvePhase(bookings[w.bookingId], w.isRemainingPayment)
              d == Diagnosis(chain[w.txHash], p.paymentToken, p.expectedAmount)
          IN (w.pc = "read" /\ p.next = "fetch" /\ chain[w.txHash] # NoReceipt
                /\ p.paymentToken \in Tokens /\ d \in Mismatches)
             => /\ Answered(w).pc = "fail_update" /\ Answered(w).error = d
                /\ Answered(w).retryCount = w.retryCount)
  /\ [][\A w \in BagToSet(vers) :
          (w.pc = "fail_update" /\ w.error \in Mismatches /\ RunSteps(w))
          => /\ bookings'[w.bookingId].status = "FAILED"
             /\ vers' = BagRemove(vers, w)
             /\ activityLog'
                  = BagAdd(activityLog, LogRow(w.bookingId, "payment_failed", w.error))]_vars

\* a reverted transaction whose logs show the exact transfer has failed a booking
C15_Witness ==
  \E b \in BookingIds : \E h \in Hashes :
     /\ chain[h] = ReceiptReverted
     /\ h \in {bookings[b].txHash, bookings[b].reservationTxHash}
     /\ bookings[b].status = "FAILED"
     /\ BagIn(LogRow(b, "payment_failed", "tx_failed"), activityLog)

\* C16: validation failures found at verification time are not retried -- an attempt of
\* a remaining-phase run that finds reservationPaid = false schedules no further attempt
C16_ValidationNotRetried ==
  \A w \in BagToSet(vers) :
     (w.pc = "read" /\ w.isRemainingPayment /\ ~bookings[w.bookingId].reservationPaid)
     => Answered(w) # Retried(w)

\* the amount of the phase a submission was made for
SubmittedAmount(bk, isRemainingPayment) ==
  IF isRemainingPayment THEN bk.remainingAmount
  ELSE IF bk.requiresReservation THEN bk.reservationAmount
  ELSE bk.paymentAmount

\* C17: payment-not-locked -- an attempt that resolves an absent (null or zero) amount
\* goes to the FAILED update with the not-locked reason without fetching and without
\* using up an attempt; and verification is only ever started for a submission whose
\* phase has its amount locked
C17_PaymentLocked ==
  /\ \A w \in BagToSet(vers) :
        LET p == resolvePhase(bookings[w.bookingId], w.isRemainingPayment)
        IN (w.pc = "read" /\ p.next \notin {"skip", "throw"}
              /\ p.expectedAmount \in {NullAmount, 0})
           => /\ Answered(w).pc = "fail_update" /\ Answered(w).error = "payment_not_locked"
              /\ Answered(w).retryCount = w.retryCount
  /\ \A w \in BagToSet(vers) :
        SubmittedAmount(bookings[w.bookingId], w.isRemainingPayment) > 0

\* C18: the answer to an accepted submission does not depend on the chain -- the handler
\* can always finish (record the hash, log the submission, start the run, answer)
\* whatever the node would say; finishing neither reads nor waits for the run it
\* starts; and no step of a verification run touches a request or its response
C18_ResponseIndependent ==
  /\ [](\A q \in BagToSet(reqs) : q.pc = "save" => ENABLED SubmitSave(q))
  /\ [][\A q \in BagToSet(reqs) :
          (q.pc = "save" /\ RequestSteps(q))
          => /\ reqs' = BagRemove(reqs, q)
             /\ vers' = BagAdd(vers, Run("read", q.bookingId, q.txHash,
                                          q.isRemainingPayment, 0))
             /\ activityLog' = BagAdd(activityLog,
                   LogRow(q.bookingId, IF q.isRemainingPayment
                                       THEN "remaining_payment_submitted"
                                       ELSE "payment_submitted", Null))
             /\ UNCHANGED <<chain, notifications>>]_vars
  /\ [][(\E w \in BagToSet(vers) : RunSteps(w)) => UNCHANGED <<reqs, issued>>]_vars

\* an accepted submission has been answered and its verification has then failed on
\* node errors; the failure shows in the booking and in the log only
C18_Witness ==
  \E b \in BookingIds :
     /\ reqs = EmptyBag
     /\ BagIn(LogRow(b, "payment_submitted", Null), activityLog)
     /\ BagIn(LogRow(b, "payment_failed", "rpc_error"), activityLog)
     /\ bookings[b].status = "FAILED"

\* C19: a failing e-mail dispatch neither reverses nor blocks the transition -- the
\* success update can always complete without the mailer; when it completes without a
\* notification, the booking holds the committed status and paid flag, the run ends,
\* and nothing is retried
C19_MailFailureHarmless ==
  /\ [](\A w \in BagToSet(vers) : w.pc = "success_update" => ENABLED VerifySuccess(w, FALSE))
  /\ [][\A w \in BagToSet(vers) :
          (w.pc = "success_update" /\ RunSteps(w)
             /\ notifications' = notifications /\ activityLog' # activityLog)
          => /\ vers' = BagRemove(vers, w)
             /\ bookings'[w.bookingId].status
                  = (IF w.phase = "reservation" THEN "RESERVED" ELSE "CONFIRMED")
             /\ w.phase = "reservation" => bookings'[w.bookingId].reservationPaid
             /\ w.phase = "remaining" => bookings'[w.bookingId].remainingPaid]_vars

\* the reservation e-mail failed; the booking is RESERVED and paid, no run is left
C19_Witness ==
  \E b \in BookingIds :
     /\ BagIn(LogRow(b, "email_failed", Null), activityLog)
     /\ bookings[b].status = "RESERVED" /\ bookings[b].reservationPaid
     /\ \A n \in BagToSet(notifications) : n.bookingId # b
     /\ vers = EmptyBag

StatusActions ==
  {"reservation_paid", "remaining_payment_confirmed", "payment_confirmed", "payment_failed"}

\* number of status-change rows the log holds for booking b
StatusRows(log, b) ==
  BagCardinality([r \in {x \in BagToSet(log) : x.bookingId = b /\ x.action \in StatusActions}
                    |-> log[r]])

\* C20: every status change written by a verification run comes with exactly one
\* status-change row in the activity log, and no step removes or changes a row
C20_LoggedTransitions ==
  /\ [][\A w \in BagToSet(vers) :
          (RunSteps(w) /\ bookings'[w.bookingId].status # bookings[w.bookingId].status)
          => StatusRows(activityLog', w.bookingId) = StatusRows(activityLog, w.bookingId) + 1]_vars
  /\ [][\A r \in BagToSet(activityLog) :
          CopiesIn(r, activityLog') >= CopiesIn(r, activityLog)]_vars

\* phase, amount and token as the stated priority gives them for a row and a flag
StatedPhase(bk, isRemainingPayment) ==
  IF bk.requiresReservation /\ ~bk.reservationPaid /\ ~isRemainingPayment
  THEN [phase |-> "reservation", expectedAmount |-> bk.reservationAmount,
        paymentToken |-> OrElse(bk.reservationToken, OrElse(bk.paymentToken, "USDC"))]
  ELSE IF isRemainingPayment
  THEN [phase |-> "remaining", expectedAmount |-> bk.remainingAmount,
        paymentToken |-> bk.remainingToken]
  ELSE [phase |-> "full", expectedAmount |-> bk.paymentAmount,
        paymentToken |-> bk.paymentToken]

\* C21: phase resolution -- an attempt that does not return early resolves the phase,
\* the expected amount and the token by the stated priority (reservation: reservationToken,
\* else paymentToken, else USDC; remaining: remainingToken; full: paymentToken), and a
\* remaining-phase attempt on a booking whose reservation is unpaid does not go on
C21_PhaseResolution ==
  \A w \in BagToSet(vers) :
     LET bk == bookings[w.bookingId]
         p == resolvePhase(bk, w.isRemainingPayment)
         s == StatedPhase(bk, w.isRemainingPayment)
     IN w.pc = "read"
        => /\ p.phase = s.phase
           /\ (s.phase = "remaining" /\ ~bk.reservationPaid) => p.next = "throw"
           /\ p.next \in {"fetch", "fail"}
                => (p.expectedAmount = s.expectedAmount /\ p.paymentToken = s.paymentToken)

\* positions of the logs emitted by the token contract (any letter case) with the
\* Transfer signature as first topic, and of those among them sent to the treasury
TokenTransferIdx(receipt, token) ==
  {i \in 1..Len(receipt.logs) :
     /\ toLowerCase(receipt.logs[i].address) = toLowerCase(tokenInfo(token).address)
     /\ receipt.logs[i].topic0 = TRANSFER_TOPIC}
TreasuryTransferIdx(receipt, token) ==
  {i \in TokenTransferIdx(receipt, token) :
     toLowerCase(receipt.logs[i].to) = toLowerCase(treasuryAddress)}

\* the receipt without the logs that follow its first treasury transfer
UpToFirstTreasury(receipt, token) ==
  [receipt EXCEPT !.logs = SubSeq(@, 1, Min(TreasuryTransferIdx(receipt, token)))]

\* C22: transfer-log matching -- an attempt that gets a successful receipt goes to the
\* FAILED update with the no-transfer reason when no log is a Transfer of the token, with
\* the wrong-recipient reason when such logs exist but none is sent to the treasury, and
\* otherwise is decided by the first Transfer of the token sent to the treasury alone
\* (equal value: success update, else amount mismatch), whatever logs follow it
C22_LogMatching ==
  \A w \in BagToSet(vers) :
     LET p == resolvePhase(bookings[w.bookingId], w.isRemainingPayment)
         r == chain[w.txHash]
         a == Answered(w)
     IN (w.pc = "read" /\ p.next = "fetch" /\ r.status = "success")
        => IF TokenTransferIdx(r, p.paymentToken) = {}
           THEN a.pc = "fail_update" /\ a.error = "no_transfer"
           ELSE IF TreasuryTransferIdx(r, p.paymentToken) = {}
           THEN a.pc = "fail_update" /\ a.error = "wrong_recipient"
           ELSE /\ IF r.logs[Min(TreasuryTransferIdx(r, p.paymentToken))].data
                        = p.expectedAmount * 10^TokenDecimals
                   THEN a.pc = "success_update"
                   ELSE a.pc = "fail_update" /\ a.error = "amount_mismatch"
                /\ a = afterFetch([w EXCEPT !.phase = p.phase,
                                            !.expectedAmount = p.expectedAmount,
                                            !.paymentToken = p.paymentToken],
                                  UpToFirstTreasury(r, p.paymentToken))

\* a receipt whose first treasury transfer is short and whose later one is exact has
\* failed a booking, and a receipt naming the token contract in upper case has paid one
C22_Witness ==
  /\ \E b \in BookingIds : \E h \in Hashes :
        /\ chain[h] = ReceiptShortThenExact
        /\ h \in {bookings[b].txHash, bookings[b].reservationTxHash}
        /\ bookings[b].status = "FAILED"
        /\ BagIn(LogRow(b, "payment_failed", "amount_mismatch"), activityLog)
  /\ \E b \in BookingIds : \E h \in Hashes :
        /\ chain[h] = ReceiptPays30
        /\ bookings[b].txHash = h /\ bookings[b].status = "CONFIRMED"

\* C23: a receipt whose status is not success fails the booking before any log is
\* looked at -- the attempt that gets it goes to the FAILED update with the
\* transaction-failed reason whatever its logs hold, no run ever stands before a success
\* update with such a receipt, and the update of that run sets FAILED, not RESERVED or
\* CONFIRMED
C23_RevertedFails ==
  /\ [](\A w \in BagToSet(vers) :
          LET p == resolvePhase(bookings[w.bookingId], w.isRemainingPayment)
              r == chain[w.txHash]
              w1 == [w EXCEPT !.phase = p.phase, !.expectedAmount = p.expectedAmount,
                              !.paymentToken = p.paymentToken]
          IN /\ (w.pc = "read" /\ p.next = "fetch" /\ r.status = "reverted")
                  => /\ Answered(w) = [w1 EXCEPT !.pc = "fail_update", !.error = "tx_failed"]
                     /\ Answered(w) = afterFetch(w1, [r EXCEPT !.logs = <<>>])
             /\ w.pc = "success_update" => r.status = "success")
  /\ [][\A w \in BagToSet(vers) :
          (w.pc = "fail_update" /\ w.error = "tx_failed" /\ RunSteps(w))
          => /\ bookings'[w.bookingId].status = "FAILED"
             /\ bookings'[w.bookingId].reservationPaid = bookings[w.bookingId].reservationPaid
             /\ bookings'[w.bookingId].remainingPaid = bookings[w.bookingId].remainingPaid]_vars

\* the only verification of a booking got a reverted receipt showing the exact transfer
\* to the treasury: the booking is FAILED, nothing is paid and no success row exists
C23_Witness ==
  \E b \in BookingIds : \E h \in Hashes :
     /\ chain[h] = ReceiptReverted
     /\ FirstTreasuryValue([ReceiptReverted EXCEPT !.status = "success"], "USDC")
          = 30 * 10^TokenDecimals
     /\ bookings[b].status = "FAILED"
     /\ ~bookings[b].reservationPaid /\ ~bookings[b].remainingPaid
     /\ BagIn(LogRow(b, "payment_failed", "tx_failed"), activityLog)
     /\ \A phase \in Phases : ~BagIn(LogRow(b, successAction(phase), Null), activityLog)
     /\ vers = EmptyBag

\* C24: payment metadata -- the success update of every phase leaves the booking with
\* the block number, the sender address and the gas usage of the transaction that run
\* verified
C24_MetadataPersisted ==
  [][\A w \in BagToSet(vers) :
       (w.pc = "success_update" /\ RunSteps(w))
       => /\ bookings'[w.bookingId].blockNumber = blockNumberOf(w.txHash)
          /\ bookings'[w.bookingId].senderAddress = senderOf(w.txHash)
          /\ bookings'[w.bookingId].gasUsed = gasUsedOf(w.txHash)]_vars

\* the phase whose hash slot an accepted submission with this flag writes
SlotOf(bk, isRemainingPayment) ==
  IF isRemainingPayment THEN "remaining"
  ELSE IF bk.requiresReservation THEN "reservation" ELSE "full"

\* the phases for which a submission for this row would pass the guards of the handler
OpenSlots(bk) ==
  {SlotOf(bk, rem) : rem \in {r \in BOOLEAN :
      \E tok \in Tokens : statusGuard(bk, tok, r) = Pass}}

\* C25: at most one payment slot is open per booking -- whatever flag the caller sends,
\* the submissions the handler would accept for a booking all go to one and the same
\* phase
C25_OneOpenSlot == \A b \in BookingIds : Cardinality(OpenSlots(bookings[b])) <= 1

\* the admin request with these locals performs its update in this step
AdminSteps(a) == CopiesIn(a, admin') < CopiesIn(a, admin)

\* C26: approve and reject act only on WAITLISTED bookings -- the update of an approve
\* moves a WAITLISTED booking to PENDING, the update of a reject moves a WAITLISTED
\* booking to CANCELLED, and no step changes requiresReservation, reservationAmount or
\* remainingAmount of a booking that has left WAITLISTED
C26_AdminOnlyWaitlisted ==
  [][/\ \A a \in BagToSet(admin) :
          AdminSteps(a)
          => /\ bookings[a.bookingId].status = "WAITLISTED"
             /\ bookings'[a.bookingId].status
                  = (IF a.op = "approve" THEN "PENDING" ELSE "CANCELLED")
     /\ \A b \in BookingIds :
          bookings[b].status # "WAITLISTED"
          => /\ bookings'[b].requiresReservation = bookings[b].requiresReservation
             /\ bookings'[b].reservationAmount = bookings[b].reservationAmount
             /\ bookings'[b].remainingAmount = bookings[b].remainingAmount]_vars

\* the total price of a booking: the selected room's price, else the price of the stay
TotalPrice(bk) ==
  IF bk.selectedRoomPriceUSDC \notin {NullAmount, 0} THEN bk.selectedRoomPriceUSDC
  ELSE IF bk.priceUSDC # 0 THEN bk.priceUSDC
  ELSE bk.priceUSDC * bk.numberOfNights

C27_StartupFatal == loaded => validateConfiguration(config) = {}

\* the fields of a row other than its hash slots and chainId
Obligation(bk) ==
  <<bk.status, bk.requiresReservation, bk.reservationPaid, bk.remainingPaid,
    bk.paymentAmount, bk.reservationAmount, bk.remainingAmount,
    bk.paymentToken, bk.reservationToken, bk.remainingToken,
    bk.blockNumber, bk.senderAddress, bk.gasUsed>>

\* the three hash slots of a row after h was written to the slot of the given phase
SlotsWith(bk, slot, h) ==
  <<IF slot = "full" THEN h ELSE bk.txHash,
    IF slot = "reservation" THEN h ELSE bk.reservationTxHash,
    IF slot = "remaining" THEN h ELSE bk.remainingTxHash>>

\* C28: an accepted submission records its hash in exactly the slot of its phase
\* (remainingTxHash when isRemainingPayment, else reservationTxHash when the booking
\* requires a reservation, else txHash) together with chainId, leaves status, paid
\* flags, amounts, tokens and the two other slots as they were, and the write and the
\* submission log row are there when the verification starts: the same step adds the
\* run, and every run in flight has its submission row in the log
C28_HashSlot ==
  /\ [](\A w \in BagToSet(vers) :
          BagIn(LogRow(w.bookingId, submittedAction(w.isRemainingPayment), Null), activityLog))
  /\ [][\A q \in BagToSet(reqs) :
          (q.pc = "save" /\ RequestSteps(q))
          => LET old == bookings[q.bookingId]
                 new == bookings'[q.bookingId]
             IN /\ <<new.txHash, new.reservationTxHash, new.remainingTxHash>>
                     = SlotsWith(old, SlotOf(old, q.isRemainingPayment), q.txHash)
                /\ new.chainId = MonadTestnet
                /\ Obligation(new) = Obligation(old)
                /\ \A b \in BookingIds \ {q.bookingId} : bookings'[b] = bookings[b]
                /\ activityLog' = BagAdd(activityLog,
                      LogRow(q.bookingId, submittedAction(q.isRemainingPayment), Null))
                /\ vers' = BagAdd(vers, Run("read", q.bookingId, q.txHash,
                                             q.isRemainingPayment, 0))]_vars

\* a reservation submission has been recorded: the hash is in reservationTxHash only,
\* the booking is still PENDING and unpaid, and its run has not yet read the row
C28_Witness ==
  \E b \in BookingIds : \E h \in Hashes :
     /\ bookings[b].requiresReservation /\ bookings[b].status = "PENDING"
     /\ ~bookings[b].reservationPaid
     /\ bookings[b].reservationTxHash = h /\ bookings[b].chainId = MonadTestnet
     /\ bookings[b].txHash = Null /\ bookings[b].remainingTxHash = Null
     /\ BagIn(Run("read", b, h, FALSE, 0), vers)
     /\ BagIn(LogRow(b, "payment_submitted", Null), activityLog)

\* the hash slot of a phase
Slot(bk, phase) ==
  CASE phase = "full" -> bk.txHash
    [] phase = "reservation" -> bk.reservationTxHash
    [] phase = "remaining" -> bk.remainingTxHash

\* the obligation of a phase is consumed
Paid(bk, phase) ==
  CASE phase = "full" -> bk.status = "CONFIRMED"
    [] phase = "reservation" -> bk.reservationPaid
    [] phase = "remaining" -> bk.remainingPaid

\* C30: the hash bound to a consumed obligation is the hash that was verified -- the
\* success update of a run leaves the slot of its phase holding the hash the run was
\* called with, and no other step changes the slot of a consumed obligation
C30_StoredIsVerified ==
  [][/\ \A w \in BagToSet(vers) :
          (w.pc = "success_update" /\ RunSteps(w))
          => Slot(bookings'[w.bookingId], w.phase) = w.txHash
     /\ \A b \in BookingIds : \A phase \in Phases :
          (Paid(bookings[b], phase) /\ Paid(bookings'[b], phase)
             /\ ~\E w \in BagToSet(vers) : w.pc = "success_update" /\ RunSteps(w))
          => Slot(bookings'[b], phase) = Slot(bookings[b], phase)]_vars

\* C31: a reservation booking is CONFIRMED only when fully paid -- requiresReservation
\* and status CONFIRMED imply reservationPaid and remainingPaid, and no run called with
\* isRemainingPayment = false takes a requiresReservation booking to CONFIRMED
C31_ConfirmedFullyPaid ==
  /\ [](\A b \in BookingIds :
          (bookings[b].requiresReservation /\ bookings[b].status = "CONFIRMED")
          => (bookings[b].reservationPaid /\ bookings[b].remainingPaid))
  /\ [][\A w \in BagToSet(vers) :
          (RunSteps(w) /\ ~w.isRemainingPayment /\ bookings[w.bookingId].requiresReservation)
          => bookings'[w.bookingId].status # "CONFIRMED"]_vars

\* C33: the remaining phase is never credited before the reservation phase --
\* remainingPaid implies reservationPaid in every state, and every run standing before
\* a remaining-phase success update finds reservationPaid set
C33_RemainingAfterReservation ==
  /\ \A b \in BookingIds : bookings[b].remainingPaid => bookings[b].reservationPaid
  /\ \A w \in BagToSet(vers) :
        (w.pc = "success_update" /\ w.phase = "remaining")
        => bookings[w.bookingId].reservationPaid

\* both phases of a reservation booking have been credited, the remaining one by a
\* remaining-phase run
C33_Witness ==
  \E b \in BookingIds :
     /\ bookings[b].requiresReservation
     /\ bookings[b].reservationPaid /\ bookings[b].remainingPaid
     /\ bookings[b].status = "CONFIRMED"
     /\ BagIn(LogRow(b, "remaining_payment_confirmed", Null), activityLog)

\* C34: consumption is permanent -- a hash the idempotency guard reports as used is
\* reported as used in every later state
C34_ConsumptionPermanent ==
  [][\A h \in Hashes :
       checkTransactionUsed(bookings, h) => checkTransactionUsed(bookings', h)]_vars

\* C32: status RESERVED implies reservationPaid and not remainingPaid -- a booking whose
\* remaining payment has been confirmed is never in status RESERVED
C32_ReservedMeansHalfPaid ==
  \A b \in BookingIds :
     bookings[b].status = "RESERVED"
     => (bookings[b].reservationPaid /\ ~bookings[b].remainingPaid)


\* the record that replaces the locals of the call that takes the step
Successors == {v \in BagToSet(vers') : CopiesIn(v, vers') > CopiesIn(v, vers)}

\* C35: verifyPayment terminates within its retry budget -- an iteration starts only
\* while retryCount < maxRetries; every step of a call either ends it, or moves the
\* iteration on to its final write with the counter unchanged, or starts the next
\* iteration with the counter increased by one (absent receipt, RPC failure, store
\* error and validation throw alike), so at most maxRetries iterations fetch the
\* receipt; a call with maxRetries = 0 returns without touching store, log or mail;
\* and under every behaviour of chain and store every call ends
C35_TerminatesWithinBudget ==
  /\ [](\A w \in BagToSet(vers) : w.pc = "read" => w.retryCount < w.maxRetries)
  /\ [][\A w \in BagToSet(vers) : RunSteps(w) =>
          \A v \in Successors :
             \/ w.pc = "start" /\ v.pc = "read" /\ v.retryCount = 0
             \/ w.pc = "read" /\ v.pc \in {"success_update", "fail_update"}
                  /\ v.retryCount = w.retryCount
             \/ v.pc \in {"read", "fail_update"} /\ v.retryCount = w.retryCount + 1]_vars
  /\ [][\A w \in BagToSet(vers) : (RunSteps(w) /\ w.maxRetries = 0) =>
          /\ Successors = {}
          /\ UNCHANGED <<bookings, activityLog, notifications>>]_vars
  /\ <>(vers = EmptyBag)

\* both calls have ended, one of them by exhausting a budget of MaxRetries on a
\* transaction that was never mined
C35_Witness ==
  /\ vers = EmptyBag
  /\ \E b \in BookingIds :
        CopiesIn(LogRow(b, "payment_failed", "timeout"), activityLog) = 1
  /\ \E h \in Hashes : chain[h] = NoReceipt


\* the (booking, phase) pairs credited with transaction t under any spelling of its hash
CreditedWith(t) == UNION {ConsumedBy(h) : h \in {s \in Spellings : txOf(s) = t}}

\* C36: the idempotency guard identifies a transaction, not a spelling -- a well-formed
\* submission whose hash denotes a transaction that is consumed under some spelling is
\* answered 409, and a transaction is credited to at most one (booking, phase) pair
\* whatever the letter case of the submitted hashes
C36_SpellingIndependentGuard ==
  /\ [][\A q \in BagToSet(reqs') :
          ( /\ issued' = issued + 1
            /\ CopiesIn(q, reqs') > CopiesIn(q, reqs)
            /\ q.txHash \in Spellings
            /\ ~(q.pc = "responded" /\ q.code = 400)
            /\ \E h \in Spellings : txOf(h) = txOf(q.txHash) /\ checkTransactionUsed(bookings, h) )
          => (q.pc = "responded" /\ q.code = 409)]_vars
  /\ [](\A t \in Hashes : Cardinality(CreditedWith(t)) <= 1)


\* the token fields of a booking row
TokensOf(bk) == <<bk.paymentToken, bk.reservationToken, bk.remainingToken>>

\* C37: the declared paymentToken does not influence verification -- no step of the
\* submit handler changes a token field of a booking, a run starts without any token in
\* its locals (two accepted submissions differing only in the declared token start
\* the same run), and an iteration takes phase, expected amount and token from the
\* booking row and the phase flag alone
C37_DeclaredTokenIgnored ==
  /\ [][\A q \in BagToSet(reqs) : RequestSteps(q) =>
          /\ \A b \in BookingIds : TokensOf(bookings'[b]) = TokensOf(bookings[b])
          /\ \A tok \in Tokens, v \in BagToSet(vers') :
                CopiesIn(v, vers') > CopiesIn(v, vers)
                  => v = startVerification([q EXCEPT !.paymentToken = tok])]_vars
  /\ [](\A w \in BagToSet(vers) : w.pc = "read" => w.paymentToken = Null)
  /\ [][\A w \in BagToSet(vers) : (RunSteps(w) /\ w.pc = "read") =>
          \A v \in BagToSet(vers') :
             (CopiesIn(v, vers') > CopiesIn(v, vers) /\ v.pc # "read")
               => LET p == resolvePhase(bookings[w.bookingId], w.isRemainingPayment)
                  IN /\ v.phase = p.phase
                     /\ v.expectedAmount = p.expectedAmount
                     /\ v.paymentToken = p.paymentToken
                     /\ v.paymentToken \in {bookings[w.bookingId].paymentToken,
                                            bookings[w.bookingId].reservationToken,
                                            bookings[w.bookingId].remainingToken, "USDC"}]_vars

\* two submissions that differ only in the declared token have both been accepted for
\* a booking locked in USDC
C37_Witness ==
  \E q \in BagToSet(reqs) :
     /\ q.pc = "save" /\ q.paymentToken = "USDC"
     /\ bookings[q.bookingId].paymentToken = "USDC"
     /\ BagIn([q EXCEPT !.paymentToken = "USDT"], reqs)


\* statuses from which no payment can be submitted
DeadStatuses == {"FAILED", "CONFIRMED", "CANCELLED", "EXPIRED", "WAITLISTED"}

\* C38: FAILED is a dead end for submission -- a submission that finds its booking
\* FAILED (or CONFIRMED, CANCELLED, EXPIRED, WAITLISTED) is refused with 409, for either
\* phase flag and any hash, and starts no verification
C38_FailedDeadEnd ==
  [][\A q \in BagToSet(reqs) :
       ( /\ q.pc = "find" /\ q.bookingId \in BookingIds /\ RequestSteps(q)
         /\ bookings[q.bookingId].status \in DeadStatuses )
       => /\ ~Accepted(q)
          /\ vers' = vers
          /\ RefusedWith(q, 409)]_vars

====
